---- MODULE Spec2Model ----
(***************************************************************************)
(* Model of the offline-app service worker (src/main.ts): the worker       *)
(* script returned by getServiceWorkerCode (install, activate, fetch and   *)
(* message handlers), the page script's clearCache and updateApp, and the  *)
(* origin handler that answers the worker's network fetches.               *)
(*                                                                         *)
(* A URL is the sequence of its path segments: "/" is << >>,               *)
(* "/api/data" is <<"api", "data">>.  A cache generation name             *)
(* 'offline-app-v<n>' is the number n.                                     *)
(*                                                                         *)
(* Each promise callback of a handler is one action; handlers interleave   *)
(* at every network or cache operation.  What the browser contributes:     *)
(*  - fetch events are dispatched to the worker once it is activated;      *)
(*  - a rejected waitUntil promise of install makes the worker redundant,  *)
(*    and the browser may start a new install attempt later;               *)
(*  - cache.addAll stores its responses in one batch, or none of them;     *)
(*  - caches.match searches the generations in creation order;             *)
(*  - a Cache object stays usable after caches.delete of its name, but     *)
(*    what is written to it is no longer in CacheStorage;                  *)
(*  - respondWith given undefined or a rejection fails the request with a  *)
(*    network error.                                                       *)
(***************************************************************************)
EXTENDS Integers, Sequences, FiniteSets, TLC

\* ---- bounds ----
MaxGen == 1          \* generation names are 0..MaxGen
MaxInflight == 2     \* fetch events in flight at the same time
MaxClock == 1        \* the clock (Date) runs 0..MaxClock

\* ---- configuration of the worker script ----
CACHE_NAME == 1
Root == << >>
OFFLINE_URL == <<"offline.html">>
Index == <<"index.html">>
ApiData == <<"api", "data">>
ApiOther == <<"api", "other">>
Asset == <<"app.js">>
CACHE_URLS == <<Root, OFFLINE_URL>>

GenNames == 0..MaxGen
Slots == 1..MaxInflight
InstallSlot == 0
Urls == {Root, Index, OFFLINE_URL, ApiData, ApiOther, Asset}

Request(m, md, u) == [method |-> m, mode |-> md, url |-> u]
NoRequest == Request("", "", Root)
Requests ==
  { Request("GET", "navigate", Index),
    Request("GET", "cors", ApiData),
    Request("GET", "cors", ApiOther),
    Request("GET", "no-cors", Asset),
    Request("POST", "cors", ApiData) }

\* ---- responses ----
Response(st, pg, ts, on, ca) ==
  [status |-> st, page |-> pg, timestamp |-> ts, online |-> on, cached |-> ca]
NoResponse == Response(0, "none", 0, FALSE, FALSE)
Ok(resp) == resp.status >= 200 /\ resp.status <= 299

\* The origin handler: a pure function of the path and the clock.
ServerFetch(path, t) ==
  IF path = Root \/ path = Index
    THEN Response(200, "main", 0, FALSE, FALSE)
  ELSE IF path = <<"sw.js">>
    THEN Response(200, "sw", 0, FALSE, FALSE)
  ELSE IF path = OFFLINE_URL
    THEN Response(200, "offline", 0, FALSE, FALSE)
  ELSE IF path = ApiData
    THEN Response(200, "api", t, TRUE, FALSE)
  ELSE Response(404, "notfound", 0, FALSE, FALSE)

\* Variant of OfflineApiResponse: the JSON of the origin handler is reused.
OfflineApiResponseAsFresh(t) == Response(200, "api", t, TRUE, FALSE)

\* The JSON the worker synthesizes when an API request has no cached entry.
OfflineApiResponse(t) == Response(200, "api", t, FALSE, TRUE)

\* url.pathname.startsWith('/api/')
IsApiPath(path) == Len(path) >= 2 /\ path[1] = "api"

\* ---- the cache store ----
Entry(m, resp) == [method |-> m, resp |-> resp]
NoEntry == Entry("", NoResponse)
EmptyCache == [u \in Urls |-> NoEntry]

\* Is name n in the ordered list of generation names?
HasName(names, n) == \E i \in 1..Len(names) : names[i] = n

\* Variant of CachePut: an existing entry is kept instead of overwritten.
CachePutKeepExisting(cache, rq, resp) ==
  IF rq.method = "GET" /\ cache[rq.url] = NoEntry
    THEN [cache EXCEPT ![rq.url] = Entry(rq.method, resp)]
    ELSE cache

\* Cache.put: only GET requests can be stored (others throw TypeError).
CachePut(cache, rq, resp) ==
  IF rq.method = "GET"
    THEN [cache EXCEPT ![rq.url] = Entry(rq.method, resp)]
    ELSE cache

\* Cache.match on one generation.
CacheMatch(cache, rq) ==
  IF rq.method = "GET" THEN cache[rq.url] ELSE NoEntry

\* caches.match: the first hit over the generations in creation order.
RECURSIVE StoreMatchFrom(_, _, _, _)
StoreMatchFrom(names, data, rq, i) ==
  IF i > Len(names) THEN NoEntry
  ELSE IF CacheMatch(data[names[i]], rq) # NoEntry
    THEN CacheMatch(data[names[i]], rq)
  ELSE StoreMatchFrom(names, data, rq, i + 1)
StoreMatch(names, data, rq) == StoreMatchFrom(names, data, rq, 1)

\* caches.open: the list of names after opening n (created when absent).
OpenNames(names, n) == IF HasName(names, n) THEN names ELSE Append(names, n)

\* caches.delete: the list of names without n.
RECURSIVE RemoveName(_, _)
RemoveName(names, n) ==
  IF names = << >> THEN << >>
  ELSE IF Head(names) = n THEN RemoveName(Tail(names), n)
  ELSE <<Head(names)>> \o RemoveName(Tail(names), n)

VARIABLES
  cacheNames,     \* CacheStorage: generation names in creation order
  cacheData,      \* contents of each generation (EmptyCache when absent)
  attached,       \* holders (InstallSlot, slots) whose opened Cache object
                  \* is still the one in CacheStorage
  online,         \* is the network reachable
  now,            \* the clock
  swState,        \* lifecycle state of the worker
  installPc,      \* position in the install handler's promise chain
  installFetched, \* how many of CACHE_URLS addAll has fetched
  skipWaitingFlag,
  activatePc,     \* position in the activate handler's promise chain
  activateNames,  \* the names caches.keys() gave the activate handler
  activatePending,\* names the activate handler still has to delete
  controller,     \* which worker controls the open pages
  req, pc, result,\* per slot: the request, handler position, page's result
  putPc, putResp, \* per slot: the detached cache write and its clone
  netCalls,       \* per slot: network fetches issued for the request
  newer,          \* per slot: the response a later fetch got for the same
                  \* url while the slot's cache write was pending
  precached,      \* has an install stored the shell in the current generation
  lastPut,        \* per url: response most recently written into the
                  \* current generation (NoResponse once it is deleted)
  delivered       \* the message the waiting worker's handler ran for last,
                  \* and whether it called skipWaiting (cleared when the
                  \* worker leaves the waiting state)

storeVars == <<cacheNames, cacheData, attached>>
envVars == <<online, now>>
lifeVars == <<swState, installPc, installFetched, skipWaitingFlag,
              activatePc, activateNames, activatePending, controller>>
slotVars == <<req, pc, result, putPc, putResp, netCalls>>
histVars == <<newer, lastPut, precached, delivered>>
vars == <<storeVars, envVars, lifeVars, slotVars, histVars>>

Result(k, resp) == [kind |-> k, resp |-> resp]
NoResult == Result("pending", NoResponse)

Delivered(d, called) == [data |-> d, skip |-> called]
NoMessage == Delivered("none", FALSE)

\* A generation left by an earlier deployment: shell and one API response.
OldSnapshot ==
  [u \in Urls |->
     IF u = Root THEN Entry("GET", Response(200, "main", 0, FALSE, FALSE))
     ELSE IF u = OFFLINE_URL
       THEN Entry("GET", Response(200, "offline", 0, FALSE, FALSE))
     ELSE IF u = ApiData
       THEN Entry("GET", Response(200, "api", 0, TRUE, FALSE))
     ELSE NoEntry]

\* Orders of the generation names that exist before the worker is installed.
RECURSIVE SeqsOver(_)
SeqsOver(S) ==
  IF S = {} THEN {<< >>}
  ELSE UNION { { <<x>> \o s : s \in SeqsOver(S \ {x}) } : x \in S }
InitNames == UNION { SeqsOver(S) : S \in SUBSET GenNames }

Init ==
  /\ cacheNames \in InitNames
  /\ \E full \in SUBSET GenNames :
       cacheData = [g \in GenNames |->
                      IF HasName(cacheNames, g) /\ g \in full
                        THEN OldSnapshot ELSE EmptyCache]
  /\ attached = {}
  /\ online \in BOOLEAN
  /\ now = 0
  /\ swState = "parsed"
  /\ installPc = "none"
  /\ installFetched = 0
  /\ skipWaitingFlag = FALSE
  /\ activatePc = "none"
  /\ activateNames = {}
  /\ activatePending = {}
  /\ controller \in {"none", "old"}
  /\ req = [r \in Slots |-> NoRequest]
  /\ pc = [r \in Slots |-> "idle"]
  /\ result = [r \in Slots |-> NoResult]
  /\ putPc = [r \in Slots |-> "none"]
  /\ putResp = [r \in Slots |-> NoResponse]
  /\ netCalls = [r \in Slots |-> 0]
  /\ newer = [r \in Slots |-> NoResponse]
  /\ lastPut = [u \in Urls |-> NoResponse]
  /\ precached = FALSE
  /\ delivered = NoMessage

\* ---- deleting a generation (caches.delete) ----
\* Cache objects opened before the deletion stay usable but are no longer
\* the generation that CacheStorage serves.
NamesOf(names) == { names[i] : i \in 1..Len(names) }

DeleteGeneration(n) ==
  /\ cacheNames' = RemoveName(cacheNames, n)
  /\ cacheData' = [cacheData EXCEPT ![n] = EmptyCache]
  /\ attached' = IF n = CACHE_NAME THEN {} ELSE attached
  /\ lastPut' = IF n = CACHE_NAME /\ HasName(cacheNames, n)
                  THEN [u \in Urls |-> NoResponse] ELSE lastPut
  /\ UNCHANGED <<newer, precached, delivered>>

\* ---- environment ----
GoOffline ==
  /\ online
  /\ online' = FALSE
  /\ UNCHANGED <<now, storeVars, lifeVars, slotVars, histVars>>

GoOnline ==
  /\ ~online
  /\ online' = TRUE
  /\ UNCHANGED <<now, storeVars, lifeVars, slotVars, histVars>>

Tick ==
  /\ now < MaxClock
  /\ now' = now + 1
  /\ UNCHANGED <<online, storeVars, lifeVars, slotVars, histVars>>

\* ---- install handler ----
\* Variant of StartInstall: self.skipWaiting() is called first thing in the
\* install handler instead of after the precache.
StartInstallSkipFirst ==
  /\ swState \in {"parsed", "redundant"}
  /\ swState' = "installing"
  /\ installPc' = "open"
  /\ installFetched' = 0
  /\ skipWaitingFlag' = TRUE
  /\ UNCHANGED <<activatePc, activateNames, activatePending, controller>>
  /\ UNCHANGED <<storeVars, envVars, slotVars, histVars>>

\* The browser starts an install attempt (a fresh worker instance).
StartInstall ==
  /\ swState \in {"parsed", "redundant"}
  /\ swState' = "installing"
  /\ installPc' = "open"
  /\ installFetched' = 0
  /\ skipWaitingFlag' = FALSE
  /\ UNCHANGED <<activatePc, activateNames, activatePending, controller>>
  /\ UNCHANGED <<storeVars, envVars, slotVars, histVars>>

\* caches.open(CACHE_NAME)
InstallOpen ==
  /\ installPc = "open"
  /\ cacheNames' = OpenNames(cacheNames, CACHE_NAME)
  /\ attached' = attached \cup {InstallSlot}
  /\ installPc' = "addAll"
  /\ UNCHANGED <<cacheData, swState, installFetched,
                 skipWaitingFlag, activatePc, activateNames, activatePending,
                 controller>>
  /\ UNCHANGED <<envVars, slotVars, histVars>>

\* Variant of InstallAddAllFetch: each response is stored as soon as it is
\* fetched (a loop of cache.add calls) instead of in one batch.
InstallAddEachFetch ==
  /\ installPc = "addAll"
  /\ installFetched < Len(CACHE_URLS)
  /\ IF online /\ Ok(ServerFetch(CACHE_URLS[installFetched + 1], now))
       THEN /\ installFetched' = installFetched + 1
            /\ cacheData' = [cacheData EXCEPT ![CACHE_NAME] =
                 CachePut(@, [method |-> "GET", mode |-> "cors",
                              url |-> CACHE_URLS[installFetched + 1]],
                          ServerFetch(CACHE_URLS[installFetched + 1], now))]
            /\ UNCHANGED <<installPc, swState>>
       ELSE /\ installPc' = "failed"
            /\ swState' = "redundant"
            /\ UNCHANGED <<installFetched, cacheData>>
  /\ UNCHANGED <<skipWaitingFlag, activatePc, activateNames, activatePending,
                 controller>>
  /\ UNCHANGED <<cacheNames, attached, envVars, slotVars, histVars>>

\* cache.addAll(CACHE_URLS): one of the fetches settles.  A network failure
\* or a non-ok status rejects addAll, and with it the install.
InstallAddAllFetch ==
  /\ installPc = "addAll"
  /\ installFetched < Len(CACHE_URLS)
  /\ IF online /\ Ok(ServerFetch(CACHE_URLS[installFetched + 1], now))
       THEN /\ installFetched' = installFetched + 1
            /\ UNCHANGED <<installPc, swState>>
       ELSE /\ installPc' = "failed"
            /\ swState' = "redundant"
            /\ UNCHANGED installFetched
  /\ UNCHANGED <<skipWaitingFlag, activatePc, activateNames, activatePending,
                 controller>>
  /\ UNCHANGED <<storeVars, envVars, slotVars, histVars>>

\* The cache after addAll has stored the responses of the first k urls.
RECURSIVE PutAll(_, _, _)
PutAll(cache, k, t) ==
  IF k = 0 THEN cache
  ELSE CachePut(PutAll(cache, k - 1, t),
                Request("GET", "cors", CACHE_URLS[k]),
                ServerFetch(CACHE_URLS[k], t))

\* cache.addAll(CACHE_URLS): every fetch succeeded, all entries are stored
\* in one batch.
InstallAddAllCommit ==
  /\ installPc = "addAll"
  /\ installFetched = Len(CACHE_URLS)
  /\ installPc' = "skipWaiting"
  /\ IF InstallSlot \in attached
       THEN /\ cacheData' = [cacheData EXCEPT ![CACHE_NAME] =
                               PutAll(@, Len(CACHE_URLS), now)]
            /\ lastPut' = [u \in Urls |->
                             IF \E i \in 1..Len(CACHE_URLS) : CACHE_URLS[i] = u
                               THEN ServerFetch(u, now) ELSE lastPut[u]]
            /\ precached' = TRUE
       ELSE UNCHANGED <<cacheData, lastPut, precached>>
  /\ UNCHANGED <<cacheNames, attached, newer, delivered>>
  /\ UNCHANGED <<swState, installFetched, skipWaitingFlag,
                 activatePc, activateNames, activatePending, controller>>
  /\ UNCHANGED <<envVars, slotVars>>

\* Variant of InstallSkipWaiting: the install chain ends without calling
\* self.skipWaiting().
InstallNoSkipWaiting ==
  /\ installPc = "skipWaiting"
  /\ installPc' = "done"
  /\ UNCHANGED <<swState, installFetched, skipWaitingFlag, activatePc,
                 activateNames, activatePending, controller>>
  /\ UNCHANGED <<storeVars, envVars, slotVars, histVars>>

\* .then(() => self.skipWaiting())
InstallSkipWaiting ==
  /\ installPc = "skipWaiting"
  /\ skipWaitingFlag' = TRUE
  /\ installPc' = "done"
  /\ UNCHANGED <<swState, installFetched, activatePc,
                 activateNames, activatePending, controller>>
  /\ UNCHANGED <<storeVars, envVars, slotVars, histVars>>

\* The promise given to event.waitUntil has resolved: the worker is installed.
InstallDone ==
  /\ swState = "installing"
  /\ installPc = "done"
  /\ swState' = "installed"
  /\ UNCHANGED <<installPc, installFetched, skipWaitingFlag,
                 activatePc, activateNames, activatePending, controller>>
  /\ UNCHANGED <<storeVars, envVars, slotVars, histVars>>

\* ---- activate handler ----
\* The browser activates a waiting worker whose skip-waiting flag is set, or
\* when no page is controlled by an older worker; the pages an older worker
\* controlled pass to the new one.
ActivateStart ==
  /\ swState = "installed"
  /\ skipWaitingFlag \/ controller = "none"
  /\ swState' = "activating"
  /\ activatePc' = "keys"
  /\ controller' = IF controller = "old" THEN "new" ELSE controller
  /\ delivered' = NoMessage
  /\ UNCHANGED <<installPc, installFetched, skipWaitingFlag, activateNames,
                 activatePending>>
  /\ UNCHANGED <<storeVars, envVars, slotVars, newer, lastPut, precached>>

\* Variant of StaleNames: the comparison is inverted.
StaleNamesInverted(names) == { n \in names : n = CACHE_NAME }

\* The names the handler goes on to delete: cacheName !== CACHE_NAME
StaleNames(names) == { n \in names : n # CACHE_NAME }

\* caches.keys().then(cacheNames => Promise.all(cacheNames.map(...)))
ActivateKeys ==
  /\ activatePc = "keys"
  /\ activateNames' = NamesOf(cacheNames)
  /\ activatePending' = StaleNames(NamesOf(cacheNames))
  /\ activatePc' = "delete"
  /\ UNCHANGED <<swState, installPc, installFetched, skipWaitingFlag,
                 controller>>
  /\ UNCHANGED <<storeVars, envVars, slotVars, histVars>>

\* caches.delete(cacheName) for one of the stale names
ActivateDelete(n) ==
  /\ activatePc = "delete"
  /\ n \in activatePending
  /\ activatePending' = activatePending \ {n}
  /\ DeleteGeneration(n)
  /\ UNCHANGED <<swState, installPc, installFetched, skipWaitingFlag,
                 activatePc, activateNames, controller>>
  /\ UNCHANGED <<envVars, slotVars>>

\* Variant of ActivateClaim: self.clients.claim() is called as soon as the
\* names are known, without waiting for the deletions.
ActivateClaimEarly ==
  /\ activatePc = "delete"
  /\ controller' = "new"
  /\ activatePc' = "done"
  /\ UNCHANGED <<swState, installPc, installFetched, skipWaitingFlag,
                 activateNames, activatePending>>
  /\ UNCHANGED <<storeVars, envVars, slotVars, histVars>>

\* .then(() => self.clients.claim())
ActivateClaim ==
  /\ activatePc = "delete"
  /\ activatePending = {}
  /\ controller' = "new"
  /\ activatePc' = "done"
  /\ UNCHANGED <<swState, installPc, installFetched, skipWaitingFlag,
                 activateNames, activatePending>>
  /\ UNCHANGED <<storeVars, envVars, slotVars, histVars>>

\* The promise given to event.waitUntil has resolved: the worker is
\* activated and the handler's closure is released.
ActivateDone ==
  /\ swState = "activating"
  /\ activatePc = "done"
  /\ swState' = "activated"
  /\ activateNames' = {}
  /\ UNCHANGED <<installPc, installFetched, skipWaitingFlag, activatePc,
                 activatePending, controller>>
  /\ UNCHANGED <<storeVars, envVars, slotVars, histVars>>

\* ---- message handler ----
MessageData == {"", "SKIP_WAITING", "CACHE_UPDATED"}

\* updateApp posts {type: 'SKIP_WAITING'} to the waiting worker; the handler
\* runs when the message is delivered:
\* if (event.data && event.data.type === 'SKIP_WAITING') self.skipWaiting()
OnMessageAnyType(d) ==
  /\ swState = "installed"
  /\ skipWaitingFlag' = IF d # "" THEN TRUE ELSE skipWaitingFlag
  /\ delivered' = Delivered(d, d # "")
  /\ UNCHANGED <<swState, installPc, installFetched, activatePc,
                 activateNames, activatePending, controller>>
  /\ UNCHANGED <<storeVars, envVars, slotVars, newer, lastPut, precached>>

OnMessage(d) ==
  /\ swState = "installed"
  /\ skipWaitingFlag' = IF d # "" /\ d = "SKIP_WAITING"
                          THEN TRUE ELSE skipWaitingFlag
  /\ delivered' = Delivered(d, d # "" /\ d = "SKIP_WAITING")
  /\ UNCHANGED <<swState, installPc, installFetched, activatePc,
                 activateNames, activatePending, controller>>
  /\ UNCHANGED <<storeVars, envVars, slotVars, newer, lastPut, precached>>

\* ---- the page's clearCache ----
\* const names = await caches.keys();
\* await Promise.all(names.map(name => caches.delete(name)))
\* The deletions are all started in the same turn; they are taken together.
ClearCache ==
  /\ cacheNames' = << >>
  /\ cacheData' = [g \in GenNames |-> EmptyCache]
  /\ attached' = {}
  /\ lastPut' = IF HasName(cacheNames, CACHE_NAME)
                  THEN [u \in Urls |-> NoResponse] ELSE lastPut
  /\ UNCHANGED <<newer, precached, delivered>>
  /\ UNCHANGED <<envVars, lifeVars, slotVars>>

\* ---- fetch handler ----
\* Variant of Classify: the method guard is missing.
ClassifyAnyMethod(q) ==
  IF q.mode = "navigate" THEN "navFetch"
  ELSE IF Len(q.url) >= 2 /\ q.url[1] = "api" THEN "apiFetch"
  ELSE "assetMatch"

\* The branch the handler takes for a request: the handler position after
\* its synchronous part.
Classify(q) ==
  IF q.method # "GET" THEN "done"
  ELSE IF q.mode = "navigate" THEN "navFetch"
  ELSE IF IsApiPath(q.url) THEN "apiFetch"
  ELSE "assetMatch"

\* Does the branch start with a network fetch?
StartsWithFetch(p) == p \in {"navFetch", "apiFetch"}

\* A fetch event reaches the activated worker (the lowest free slot takes it).
FetchEvent(r, q) ==
  /\ swState = "activated"
  /\ pc[r] = "idle"
  /\ \A s \in Slots : s < r => pc[s] # "idle"
  /\ req' = [req EXCEPT ![r] = q]
  /\ pc' = [pc EXCEPT ![r] = Classify(q)]
  /\ result' = [result EXCEPT ![r] =
                  IF Classify(q) = "done"
                    THEN [kind |-> "passthrough", resp |-> NoResponse]
                    ELSE @]
  /\ netCalls' = [netCalls EXCEPT ![r] =
                    IF StartsWithFetch(Classify(q)) THEN 1 ELSE 0]
  /\ UNCHANGED <<putPc, putResp>>
  /\ UNCHANGED <<storeVars, envVars, lifeVars, histVars>>

\* The response is returned to the page; its clone is handed to a cache
\* write that is started and not awaited.
Respond(r, resp, store) ==
  /\ result' = [result EXCEPT ![r] = [kind |-> "network", resp |-> resp]]
  /\ pc' = [pc EXCEPT ![r] = "done"]
  /\ newer' = [s \in Slots |->
                IF s = r THEN NoResponse
                ELSE IF req[s].url = req[r].url /\ putPc[s] \in {"open", "put"}
                  THEN resp
                ELSE newer[s]]
  /\ IF store
       THEN /\ putPc' = [putPc EXCEPT ![r] = "open"]
            /\ putResp' = [putResp EXCEPT ![r] = resp]
       ELSE UNCHANGED <<putPc, putResp>>
  /\ UNCHANGED <<req, netCalls, lastPut, precached, delivered>>
  /\ UNCHANGED <<storeVars, envVars, lifeVars>>

\* The handler moves on to position p without settling.
Goto(r, p) ==
  /\ pc' = [pc EXCEPT ![r] = p]
  /\ UNCHANGED <<req, result, putPc, putResp>>
  /\ UNCHANGED <<storeVars, envVars, lifeVars, histVars>>

\* The handler settles with a result that did not come from the network.
Settle(r, k, resp) ==
  /\ result' = [result EXCEPT ![r] = [kind |-> k, resp |-> resp]]
  /\ pc' = [pc EXCEPT ![r] = "done"]
  /\ UNCHANGED <<req, putPc, putResp, netCalls>>
  /\ UNCHANGED <<storeVars, envVars, lifeVars, histVars>>

\* -- navigation: network first, then the cache, then the offline page --
NavFetchOk(r) ==
  /\ pc[r] = "navFetch"
  /\ online
  /\ Respond(r, ServerFetch(req[r].url, now), TRUE)

NavFetchFail(r) ==
  /\ pc[r] = "navFetch"
  /\ ~online
  /\ Goto(r, "navMatch")
  /\ UNCHANGED netCalls

\* Variant of NavMatch: the fallback to the offline page is missing.
NavMatchNoOfflinePage(r) ==
  /\ pc[r] = "navMatch"
  /\ LET m == StoreMatch(cacheNames, cacheData, req[r])
     IN IF m # NoEntry
          THEN Settle(r, "cache", m.resp)
          ELSE Settle(r, "error", NoResponse)

\* caches.match(event.request).then(cachedResponse => cachedResponse || ...)
NavMatch(r) ==
  /\ pc[r] = "navMatch"
  /\ LET m == StoreMatch(cacheNames, cacheData, req[r])
     IN IF m # NoEntry
          THEN Settle(r, "cache", m.resp)
          ELSE Goto(r, "navMatchOffline") /\ UNCHANGED netCalls

\* caches.match(OFFLINE_URL); undefined makes respondWith fail the load.
NavMatchOffline(r) ==
  /\ pc[r] = "navMatchOffline"
  /\ LET m == StoreMatch(cacheNames, cacheData,
                         Request("GET", "cors", OFFLINE_URL))
     IN IF m # NoEntry
          THEN Settle(r, "offline", m.resp)
          ELSE Settle(r, "error", NoResponse)

\* -- /api/: network first, then the cache, then the placeholder JSON --
\* Variant of ApiFetchOk: the response.ok test is missing.
ApiFetchOkStoreAny(r) ==
  /\ pc[r] = "apiFetch"
  /\ online
  /\ Respond(r, ServerFetch(req[r].url, now), TRUE)

ApiFetchOk(r) ==
  /\ pc[r] = "apiFetch"
  /\ online
  /\ Respond(r, ServerFetch(req[r].url, now),
             Ok(ServerFetch(req[r].url, now)))

\* Variant of ApiFetchFail: the catch first waits until no other request
\* has a cache write pending.
ApiFetchFailAwaitsWrites(r) ==
  /\ pc[r] = "apiFetch"
  /\ ~online
  /\ \A s \in Slots \ {r} : putPc[s] \notin {"open", "put"}
  /\ Goto(r, "apiMatch")
  /\ UNCHANGED netCalls

ApiFetchFail(r) ==
  /\ pc[r] = "apiFetch"
  /\ ~online
  /\ Goto(r, "apiMatch")
  /\ UNCHANGED netCalls

\* Variant of ApiMatch: the cached entry is ignored.
ApiMatchPlaceholderOnly(r) ==
  /\ pc[r] = "apiMatch"
  /\ Settle(r, "placeholder", OfflineApiResponse(now))

ApiMatch(r) ==
  /\ pc[r] = "apiMatch"
  /\ LET m == StoreMatch(cacheNames, cacheData, req[r])
     IN IF m # NoEntry
          THEN Settle(r, "cache", m.resp)
          ELSE Settle(r, "placeholder", OfflineApiResponse(now))

\* -- everything else: the cache first, then the network --
\* Variant of AssetMatch: a hit is given back and also put into the cache
\* again.
AssetMatchRefresh(r) ==
  /\ pc[r] = "assetMatch"
  /\ LET m == StoreMatch(cacheNames, cacheData, req[r])
     IN IF m # NoEntry
          THEN /\ result' = [result EXCEPT ![r] = Result("cache", m.resp)]
               /\ pc' = [pc EXCEPT ![r] = "done"]
               /\ putPc' = [putPc EXCEPT ![r] = "open"]
               /\ putResp' = [putResp EXCEPT ![r] = m.resp]
               /\ UNCHANGED <<req, netCalls>>
               /\ UNCHANGED <<storeVars, envVars, lifeVars, histVars>>
          ELSE /\ Goto(r, "assetFetch")
               /\ netCalls' = [netCalls EXCEPT ![r] = @ + 1]

\* Variant of AssetMatch: a hit is revalidated over the network.
AssetMatchRevalidate(r) ==
  /\ pc[r] = "assetMatch"
  /\ Goto(r, "assetFetch")
  /\ netCalls' = [netCalls EXCEPT ![r] = @ + 1]

AssetMatch(r) ==
  /\ pc[r] = "assetMatch"
  /\ LET m == StoreMatch(cacheNames, cacheData, req[r])
     IN IF m # NoEntry
          THEN Settle(r, "cache", m.resp)
          ELSE /\ Goto(r, "assetFetch")
               /\ netCalls' = [netCalls EXCEPT ![r] = @ + 1]

AssetFetchOk(r) ==
  /\ pc[r] = "assetFetch"
  /\ online
  /\ Respond(r, ServerFetch(req[r].url, now), TRUE)

\* No catch on this branch: the rejection reaches respondWith.
AssetFetchFail(r) ==
  /\ pc[r] = "assetFetch"
  /\ ~online
  /\ Settle(r, "error", NoResponse)

\* -- the detached cache write of a handler --
\* Variant of PutOpen: the write opens a generation under a literal name
\* that differs from CACHE_NAME.
PutOpenOtherName(r) ==
  /\ putPc[r] = "open"
  /\ cacheNames' = OpenNames(cacheNames, CACHE_NAME - 1)
  /\ attached' = attached \cup {r}
  /\ putPc' = [putPc EXCEPT ![r] = "put"]
  /\ UNCHANGED <<cacheData, req, pc, result, putResp, netCalls>>
  /\ UNCHANGED <<envVars, lifeVars, histVars>>

\* caches.open(CACHE_NAME)
PutOpen(r) ==
  /\ putPc[r] = "open"
  /\ cacheNames' = OpenNames(cacheNames, CACHE_NAME)
  /\ attached' = attached \cup {r}
  /\ putPc' = [putPc EXCEPT ![r] = "put"]
  /\ UNCHANGED <<cacheData, req, pc, result, putResp, netCalls>>
  /\ UNCHANGED <<envVars, lifeVars, histVars>>

\* Variant of PutWrite: the write is awaited before the response is given
\* back (return cache.put(...).then(() => response)), so a write that fails
\* fails the request.
PutWriteAwaited(r) ==
  /\ putPc[r] = "put"
  /\ IF r \in attached
       THEN /\ cacheData' = [cacheData EXCEPT ![CACHE_NAME] =
                               CachePut(@, req[r], putResp[r])]
            /\ lastPut' = [lastPut EXCEPT ![req[r].url] = putResp[r]]
            /\ putPc' = [putPc EXCEPT ![r] = "stored"]
            /\ UNCHANGED result
       ELSE /\ putPc' = [putPc EXCEPT ![r] = "lost"]
            /\ result' = [result EXCEPT ![r] = Result("error", NoResponse)]
            /\ UNCHANGED <<cacheData, lastPut>>
  /\ attached' = attached \ {r}
  /\ UNCHANGED <<cacheNames, newer, precached, delivered, req, pc, putResp,
                 netCalls>>
  /\ UNCHANGED <<envVars, lifeVars>>

\* cache.put(event.request, responseClone)
PutWrite(r) ==
  /\ putPc[r] = "put"
  /\ IF r \in attached
       THEN /\ cacheData' = [cacheData EXCEPT ![CACHE_NAME] =
                               CachePut(@, req[r], putResp[r])]
            /\ lastPut' = [lastPut EXCEPT ![req[r].url] = putResp[r]]
            /\ putPc' = [putPc EXCEPT ![r] = "stored"]
       ELSE /\ putPc' = [putPc EXCEPT ![r] = "lost"]
            /\ UNCHANGED <<cacheData, lastPut>>
  /\ attached' = attached \ {r}
  /\ UNCHANGED <<cacheNames, newer, precached, delivered, req, pc, result, putResp,
                 netCalls>>
  /\ UNCHANGED <<envVars, lifeVars>>

\* The request and its write are over; the slot is free again.
Recycle(r) ==
  /\ pc[r] = "done"
  /\ putPc[r] \in {"none", "stored", "lost"}
  /\ req' = [req EXCEPT ![r] = NoRequest]
  /\ pc' = [pc EXCEPT ![r] = "idle"]
  /\ result' = [result EXCEPT ![r] = NoResult]
  /\ putPc' = [putPc EXCEPT ![r] = "none"]
  /\ putResp' = [putResp EXCEPT ![r] = NoResponse]
  /\ netCalls' = [netCalls EXCEPT ![r] = 0]
  /\ newer' = [newer EXCEPT ![r] = NoResponse]
  /\ UNCHANGED <<storeVars, envVars, lifeVars, lastPut, precached,
                 delivered>>

Next ==
  \/ GoOffline
  \/ GoOnline
  \/ Tick
  \/ StartInstall
  \/ InstallOpen
  \/ InstallAddAllFetch
  \/ InstallAddAllCommit
  \/ InstallSkipWaiting
  \/ InstallDone
  \/ ActivateStart
  \/ ActivateKeys
  \/ \E n \in GenNames : ActivateDelete(n)
  \/ ActivateClaim
  \/ ActivateDone
  \/ \E d \in MessageData : OnMessage(d)
  \/ ClearCache
  \/ \E r \in Slots, q \in Requests : FetchEvent(r, q)
  \/ \E r \in Slots : NavFetchOk(r)
  \/ \E r \in Slots : NavFetchFail(r)
  \/ \E r \in Slots : NavMatch(r)
  \/ \E r \in Slots : NavMatchOffline(r)
  \/ \E r \in Slots : ApiFetchOk(r)
  \/ \E r \in Slots : ApiFetchFail(r)
  \/ \E r \in Slots : ApiMatch(r)
  \/ \E r \in Slots : AssetMatch(r)
  \/ \E r \in Slots : AssetFetchOk(r)
  \/ \E r \in Slots : AssetFetchFail(r)
  \/ \E r \in Slots : PutOpen(r)
  \/ \E r \in Slots : PutWrite(r)
  \/ \E r \in Slots : Recycle(r)

Spec == Init /\ [][Next]_vars

\* Scheduling.  A promise callback whose operation has settled is run by the
\* event loop, and a network or cache operation settles one way or the
\* other: the next step of the install/activate chain and the next step of
\* each request's handler (and of its detached cache write) is eventually
\* taken.  Nothing obliges the browser to retry a failed install, the page
\* to send a message or clear the caches, or a request to be issued.
LifecycleStep ==
  \/ InstallOpen
  \/ InstallAddAllFetch
  \/ InstallAddAllCommit
  \/ InstallSkipWaiting
  \/ InstallDone
  \/ ActivateStart
  \/ ActivateKeys
  \/ \E n \in GenNames : ActivateDelete(n)
  \/ ActivateClaim
  \/ ActivateDone

HandlerStep(r) ==
  \/ NavFetchOk(r) \/ NavFetchFail(r) \/ NavMatch(r) \/ NavMatchOffline(r)
  \/ ApiFetchOk(r) \/ ApiFetchFail(r) \/ ApiMatch(r)
  \/ AssetMatch(r) \/ AssetFetchOk(r) \/ AssetFetchFail(r)
  \/ PutOpen(r) \/ PutWrite(r)

FairSpec ==
  /\ Spec
  /\ WF_vars(LifecycleStep)
  /\ \A r \in Slots : WF_vars(HandlerStep(r))

\* ---- what the claims speak of ----
IsNav(q) == q.method = "GET" /\ q.mode = "navigate"
IsApi(q) == q.method = "GET" /\ q.mode # "navigate" /\ IsApiPath(q.url)
IsAsset(q) == q.method = "GET" /\ q.mode # "navigate" /\ ~IsApiPath(q.url)
OfflineRequest == Request("GET", "cors", OFFLINE_URL)
CurrentEntry(data, u) == data[CACHE_NAME][u]
ShellStored(data) ==
  \A i \in 1..Len(CACHE_URLS) : CurrentEntry(data, CACHE_URLS[i]) # NoEntry
\* The body most recently fetched from the network for the key of slot r.
LastFetchedFor(r) == IF newer[r] # NoResponse THEN newer[r] ELSE putResp[r]

\* C1 as stated: once an install has precached the offline page, every GET
\* navigation settles with a response, never with a network-level error.
C1_NavigationNeverFails ==
  \A r \in Slots :
    (IsNav(req[r]) /\ pc[r] = "done" /\ precached)
      => result[r].kind \in {"network", "cache", "offline"}

\* C1 as amended: a GET navigation settles with a response (from the network,
\* the cached entry of its key, or the cached offline page); it settles with
\* a network-level error only when the network fetch failed and the fallback
\* lookups find neither an entry for the key nor the offline page in the
\* cache store (the page's clearCache deletes the precached page).
C1_NavigationResponds ==
  [][\A r \in Slots :
       (IsNav(req[r]) /\ pc[r] # "done" /\ pc'[r] = "done")
         => \/ /\ result'[r].kind \in {"network", "cache", "offline"}
               /\ result'[r].resp # NoResponse
            \/ /\ pc[r] = "navMatchOffline"
               /\ StoreMatch(cacheNames, cacheData, OfflineRequest) = NoEntry
               /\ result'[r].kind = "error"]_vars

C1_Witness ==
  \E r \in Slots :
    /\ IsNav(req[r]) /\ pc[r] = "done" /\ ~online /\ precached
    /\ result[r].kind = "offline"
    /\ result[r].resp = CurrentEntry(cacheData, OFFLINE_URL).resp

\* C2 as stated: when the cache write of a navigation or API GET completes,
\* the entry of the current generation under the request key is the body
\* most recently fetched from the network for that key, overlapping
\* requests included.
C2_EntryIsLastFetched ==
  [][\A r \in Slots :
       ((IsNav(req[r]) \/ IsApi(req[r]))
          /\ putPc[r] = "put" /\ putPc'[r] \in {"stored", "lost"})
         => CurrentEntry(cacheData', req[r].url).resp = LastFetchedFor(r)]_vars

\* C2 as amended: when the cache write of a navigation GET, or of an API GET
\* answered with a success status, completes in the current generation, the
\* entry under the request key is the body that request fetched and returned
\* to the page; it is the body most recently fetched for the key unless an
\* overlapping request fetched the key after it.  A write whose generation
\* was deleted after the write opened it stores nothing.
C2_WriteStoresFetchedBody ==
  [][\A r \in Slots :
       ((IsNav(req[r]) \/ IsApi(req[r])) /\ putPc[r] = "put"
          /\ putPc'[r] # "put")
         => IF putPc'[r] = "stored"
              THEN /\ r \in attached
                   /\ CurrentEntry(cacheData', req[r].url)
                        = Entry("GET", result[r].resp)
                   /\ IsApi(req[r]) => Ok(result[r].resp)
                   /\ newer[r] = NoResponse
                        => CurrentEntry(cacheData', req[r].url).resp
                             = LastFetchedFor(r)
              ELSE r \notin attached /\ cacheData' = cacheData]_vars

C2_Witness ==
  \E r \in Slots :
    /\ IsApi(req[r]) /\ putPc[r] = "stored" /\ newer[r] = NoResponse
    /\ result[r].resp.timestamp = MaxClock
    /\ CurrentEntry(cacheData, req[r].url).resp = result[r].resp

\* C3: when the network fetch of a navigation or API GET has failed and the
\* fallback lookup finds an entry for the request key, the response returned
\* is that entry of the current generation, the value most recently written
\* under the key (not the offline page, the placeholder or an older value).
C3_FallbackReturnsCachedEntry ==
  [][\A r \in Slots :
       (pc[r] \in {"navMatch", "apiMatch"} /\ pc'[r] # pc[r]
          /\ StoreMatch(cacheNames, cacheData, req[r]) # NoEntry)
         => /\ pc'[r] = "done"
            /\ result'[r].kind = "cache"
            /\ result'[r].resp = CurrentEntry(cacheData, req[r].url).resp
            /\ lastPut[req[r].url] # NoResponse
                 => result'[r].resp = lastPut[req[r].url]]_vars

C3_Witness ==
  \E r \in Slots :
    /\ IsApi(req[r]) /\ pc[r] = "done" /\ ~online
    /\ result[r].kind = "cache"
    /\ result[r].resp = lastPut[req[r].url]
    /\ result[r].resp.timestamp = MaxClock

\* C4: a GET that is neither a navigation nor under /api/ and whose key is in
\* the cache when it is looked up is answered with the cached entry, and no
\* network fetch is issued for it.
C4_CacheFirstNoNetwork ==
  /\ [](\A r \in Slots :
          (IsAsset(req[r]) /\ result[r].kind = "cache")
            => pc[r] = "done" /\ netCalls[r] = 0 /\ putPc[r] = "none")
  /\ [][\A r \in Slots :
          (pc[r] = "assetMatch" /\ pc'[r] # pc[r]
             /\ StoreMatch(cacheNames, cacheData, req[r]) # NoEntry)
            => /\ pc'[r] = "done"
               /\ result'[r] = Result("cache",
                    StoreMatch(cacheNames, cacheData, req[r]).resp)
               /\ netCalls'[r] = 0]_vars

C4_Witness ==
  \E r \in Slots :
    /\ IsAsset(req[r]) /\ pc[r] = "done" /\ result[r].kind = "cache"
    /\ netCalls[r] = 0
    /\ result[r].resp = CurrentEntry(cacheData, req[r].url).resp

\* C5: when the activate handler has completed, every generation whose name
\* differs from CACHE_NAME is gone, whatever generations existed when it
\* started, and no step of the handler deletes or changes the current one.
C5_EvictionComplete ==
  /\ [](activatePc = "done" => NamesOf(cacheNames) \subseteq {CACHE_NAME})
  /\ [][(activatePc' # activatePc \/ activatePending' # activatePending)
          => /\ cacheData'[CACHE_NAME] = cacheData[CACHE_NAME]
             /\ HasName(cacheNames', CACHE_NAME)
                  <=> HasName(cacheNames, CACHE_NAME)]_vars

C5_Witness ==
  /\ swState = "activating" /\ activatePc = "done"
  /\ CACHE_NAME \in activateNames
  /\ activateNames \ {CACHE_NAME} # {}
  /\ NamesOf(cacheNames) = {CACHE_NAME}
  /\ ShellStored(cacheData)

\* C6: a request whose method is not GET is left to the browser: the handler
\* returns without responding, without a cache lookup, a fetch or a cache
\* write; and every entry of the cache store has method GET.
C6_NonGetUntouched ==
  /\ \A r \in Slots :
       (req[r] # NoRequest /\ req[r].method # "GET")
         => /\ pc[r] = "done"
            /\ result[r] = Result("passthrough", NoResponse)
            /\ putPc[r] = "none"
            /\ netCalls[r] = 0
  /\ \A g \in GenNames, u \in Urls :
       cacheData[g][u] # NoEntry => cacheData[g][u].method = "GET"

C6_Witness ==
  \E r \in Slots :
    /\ req[r].method = "POST" /\ pc[r] = "done"
    /\ CurrentEntry(cacheData, req[r].url) = NoEntry

\* A step of the install handler's promise chain.
InstallStep == installPc' # installPc \/ installFetched' # installFetched

\* C7 as stated: a failed fetch of a shell url fails the install and leaves
\* the cache store as it was; when every fetch succeeded, all shell urls are
\* in the current generation at the step that completes the precache; no
\* install step stores only part of the shell list.
C7_PrecacheAlwaysLands ==
  [][InstallStep
       => /\ installPc' = "failed"
               => swState' = "redundant" /\ storeVars' = storeVars
          /\ (installPc = "addAll" /\ installPc' = "skipWaiting")
               => HasName(cacheNames', CACHE_NAME) /\ ShellStored(cacheData')
          /\ \/ cacheData' = cacheData
             \/ ShellStored(cacheData')]_vars

\* C7 as amended: a failed fetch of a shell url fails the install and leaves
\* the cache store as it was; when every fetch succeeded, the responses of
\* all shell urls are stored together, in one step, in the generation the
\* install opened, and they are in the current generation when the precache
\* completes unless that generation was deleted (the page's clearCache)
\* after the install opened it, in which case nothing is stored; no install
\* step stores only part of the shell list.
C7_AllOrNothingPrecache ==
  [][InstallStep
       => /\ installPc' = "failed"
               => swState' = "redundant" /\ storeVars' = storeVars
          /\ (installPc = "addAll" /\ installPc' = "skipWaiting")
               => IF InstallSlot \in attached
                    THEN /\ HasName(cacheNames', CACHE_NAME)
                         /\ \A i \in 1..Len(CACHE_URLS) :
                              CurrentEntry(cacheData', CACHE_URLS[i])
                                = Entry("GET", ServerFetch(CACHE_URLS[i], now))
                    ELSE cacheData' = cacheData
          /\ \/ cacheData' = cacheData
             \/ ShellStored(cacheData')]_vars

C7_Witness ==
  /\ installPc = "skipWaiting" /\ swState = "installing"
  /\ precached /\ InstallSlot \in attached
  /\ ShellStored(cacheData)
  /\ CurrentEntry(cacheData, ApiData) = NoEntry

\* C8: once the precache of an install has failed, that worker has not
\* signalled skip-waiting, is redundant, has not started to activate, and the
\* controller of the pages stays what it was.
C8_FailedInstallNeverActivates ==
  /\ [](installPc = "failed"
          => /\ ~skipWaitingFlag
             /\ swState = "redundant"
             /\ activatePc = "none"
             /\ controller \in {"none", "old"})
  /\ [][(installPc = "failed" \/ installPc' = "failed")
          => controller' = controller]_vars

C8_Witness ==
  /\ installPc = "failed" /\ swState = "redundant"
  /\ controller = "old" /\ ~skipWaitingFlag
  /\ installFetched = 1

\* C9: a GET under /api/ whose network fetch fails goes on to the cache
\* lookup; it is answered with the cached entry of its key when there is
\* one, otherwise with the synthesized JSON carrying cached = true and
\* online = false; it is never failed.
C9_ApiFallback ==
  /\ [](\A r \in Slots : IsApi(req[r]) => result[r].kind # "error")
  /\ [][\A r \in Slots :
          /\ (pc[r] = "apiFetch" /\ pc'[r] # pc[r] /\ ~online)
               => pc'[r] = "apiMatch"
          /\ (pc[r] = "apiMatch" /\ pc'[r] # pc[r])
               => /\ pc'[r] = "done"
                  /\ IF StoreMatch(cacheNames, cacheData, req[r]) # NoEntry
                       THEN result'[r] = Result("cache",
                              StoreMatch(cacheNames, cacheData, req[r]).resp)
                       ELSE /\ result'[r].kind = "placeholder"
                            /\ result'[r].resp.cached = TRUE
                            /\ result'[r].resp.online = FALSE
                            /\ result'[r].resp.timestamp = now]_vars

C9_Witness ==
  \E r \in Slots :
    /\ IsApi(req[r]) /\ pc[r] = "done" /\ ~online
    /\ result[r].kind = "placeholder"
    /\ result[r].resp.cached /\ ~result[r].resp.online

\* C10: a GET under /api/ whose network fetch succeeds is answered with the
\* network response in every case; the cache write is started only when the
\* status is a success, and a response with another status starts no write,
\* so the entry of its key is not changed by the request.
C10_ApiStoresOnlyOk ==
  /\ [](\A r \in Slots :
          (IsApi(req[r]) /\ result[r].kind = "network")
            => IF Ok(result[r].resp)
                 THEN putPc[r] # "none" /\ putResp[r] = result[r].resp
                 ELSE putPc[r] = "none" /\ putResp[r] = NoResponse)
  /\ [][\A r \in Slots :
          (pc[r] = "apiFetch" /\ pc'[r] # pc[r] /\ online)
            => /\ pc'[r] = "done"
               /\ result'[r] = Result("network", ServerFetch(req[r].url, now))
               /\ cacheData' = cacheData]_vars

C10_Witness ==
  \E r \in Slots :
    /\ IsApi(req[r]) /\ pc[r] = "done"
    /\ result[r].kind = "network" /\ ~Ok(result[r].resp)
    /\ putPc[r] = "none"
    /\ CurrentEntry(cacheData, req[r].url) = NoEntry

\* C11: a network failure during the fetch of an intercepted GET (navigation,
\* API or other) is recovered inside the worker: the failing step goes on to
\* a fallback, and the request never settles as a failed request.
C11_FailureRecovered ==
  /\ [](\A r \in Slots :
          (req[r].method = "GET" /\ pc[r] = "done" /\ netCalls[r] > 0)
            => result[r].kind # "error")
  /\ [][\A r \in Slots :
          (pc[r] \in {"navFetch", "apiFetch", "assetFetch"}
             /\ pc'[r] # pc[r] /\ ~online)
            => pc'[r] \in {"navMatch", "apiMatch"}]_vars

\* C12: no retries.  An intercepted GET issues at most one network fetch,
\* and every failure is answered by exactly one fallback step: a failed
\* fetch goes on to one cache lookup, and a fallback lookup either settles
\* the request or (navigation, entry missing) goes on to the one lookup of
\* the offline page, which settles it.
FallbackOf(p) ==
  CASE p = "navFetch" -> {"navMatch"}
    [] p = "apiFetch" -> {"apiMatch"}
    [] p = "navMatch" -> {"done", "navMatchOffline"}
    [] p \in {"navMatchOffline", "apiMatch"} -> {"done"}
    [] OTHER -> {}

C12_AtMostOneFetch ==
  \A r \in Slots : netCalls[r] <= 1

C12_OneFetchOneFallback ==
  /\ []C12_AtMostOneFetch
  /\ [][\A r \in Slots :
          /\ (pc[r] \in {"navFetch", "apiFetch", "assetFetch"}
                /\ pc'[r] # pc[r] /\ ~online)
               => (FallbackOf(pc[r]) # {} /\ pc'[r] \in FallbackOf(pc[r]))
          /\ (pc[r] \in {"navMatch", "navMatchOffline", "apiMatch"}
                /\ pc'[r] # pc[r])
               => pc'[r] \in FallbackOf(pc[r])]_vars

\* C13: a {type: "SKIP_WAITING"} message delivered to the waiting worker
\* makes its handler call skipWaiting, after which the worker is waiting
\* with the skip-waiting flag set (the browser's condition to activate it,
\* whoever controls the pages); a message without data or of another type
\* makes no such call and changes neither the lifecycle nor the cache store.
MessageStep == delivered' # delivered /\ delivered' # NoMessage

LifecycleOrder ==
  { <<"parsed", "installing">>, <<"installing", "installed">>,
    <<"installed", "activating">>, <<"activating", "activated">>,
    <<"installing", "redundant">>, <<"redundant", "installing">> }

C14_NoActivationGate ==
  /\ [][(skipWaitingFlag' /\ ~skipWaitingFlag)
          => /\ installPc = "skipWaiting" /\ installPc' = "done"
             /\ installFetched = Len(CACHE_URLS)
             /\ delivered' = delivered]_vars
  /\ [](swState = "installed" => skipWaitingFlag)
  /\ [][swState' # swState => <<swState, swState'>> \in LifecycleOrder]_vars
  /\ (installPc = "skipWaiting") ~> (swState = "activated")

C14_Witness ==
  /\ swState = "activated"
  /\ skipWaitingFlag
  /\ precached
  /\ controller = "new"

\* C15: activation ordering.  The step by which the activate handler claims
\* the open pages is taken only when every deletion it started has
\* completed and none of the stale generations it enumerated is left; so
\* whenever the pages are controlled by the new worker and its claim has
\* run, the store holds no generation with another name than CACHE_NAME.
ClaimStep == activatePc = "delete" /\ activatePc' = "done"

C15_ClaimAfterEviction ==
  /\ [][(ClaimStep \/ (controller = "none" /\ controller' # "none"))
          => /\ ClaimStep
             /\ controller' = "new"
             /\ activatePending = {}
             /\ StaleNames(activateNames) \cap NamesOf(cacheNames) = {}
             /\ storeVars' = storeVars]_vars
  /\ []((controller = "new" /\ activatePc = "done")
          => StaleNames(NamesOf(cacheNames)) = {})

C15_Witness ==
  /\ swState = "activating" /\ activatePc = "done"
  /\ controller = "new"
  /\ StaleNames(activateNames) # {}
  /\ StaleNames(NamesOf(cacheNames)) = {}

\* C16: last write wins under overlap.  When the cache write of a request
\* lands while another request for the same key is in flight or has written,
\* the entry becomes exactly the response this request fetched, also when
\* the other request fetched a later one; the entry is always the whole
\* value of the write that landed last in the current generation, and once
\* present it disappears only with the generation.
Overlap(r, s) ==
  /\ r # s
  /\ req[r] # NoRequest /\ req[s] # NoRequest
  /\ req[r].url = req[s].url
  /\ putPc[r] # "none" /\ putPc[s] # "none"

C16_LastWriteWins ==
  /\ [][\A r, s \in Slots :
          (Overlap(r, s) /\ putPc[r] = "put" /\ putPc'[r] = "stored")
            => /\ CurrentEntry(cacheData', req[r].url)
                    = Entry("GET", putResp[r])
               /\ lastPut'[req[r].url] = putResp[r]]_vars
  /\ [](\A u \in Urls :
          lastPut[u] # NoResponse
            => CurrentEntry(cacheData, u) = Entry("GET", lastPut[u]))
  /\ [][\A u \in Urls :
          (CurrentEntry(cacheData, u) # NoEntry
             /\ CurrentEntry(cacheData', u) = NoEntry)
            => ~HasName(cacheNames', CACHE_NAME)]_vars

C16_Witness ==
  \E r, s \in Slots :
    /\ Overlap(r, s)
    /\ putPc[r] = "stored" /\ putPc[s] = "stored"
    /\ newer[r] = putResp[s] /\ putResp[s] # putResp[r]
    /\ CurrentEntry(cacheData, req[r].url) = Entry("GET", putResp[r])

\* C17: run to completion.  Every request a handler has taken on eventually
\* settles, with a response or a rejection, however the requests in flight
\* interleave; and a handler that has not settled always has a step of its
\* own to take, whatever the other handlers are doing.
Settled(r) == pc[r] = "done" /\ result[r].kind # "pending"

C17_RunToCompletion ==
  /\ \A r \in Slots : (pc[r] \notin {"idle", "done"}) ~> Settled(r)
  /\ [](\A r \in Slots :
          pc[r] \notin {"idle", "done"} => ENABLED HandlerStep(r))
  /\ [](\A r \in Slots : pc[r] = "done" => Settled(r))

C17_Witness ==
  \E r, s \in Slots :
    /\ r # s
    /\ Settled(r) /\ result[r].kind = "error"
    /\ Settled(s) /\ result[s].kind = "network"
    /\ putPc[s] = "stored"

\* C18: the response of a successful network fetch is given to the page in
\* the step that starts the cache write, with the store still untouched;
\* it is the response the origin sent, and it stays the page's result while
\* the write is pending, when it has landed and when it was lost.
FetchOkStep(r) ==
  /\ pc[r] \in {"navFetch", "apiFetch", "assetFetch"}
  /\ pc'[r] # pc[r]
  /\ online

C18_ResponseIndependentOfWrite ==
  /\ [][\A r \in Slots :
          FetchOkStep(r)
            => /\ pc'[r] = "done"
               /\ result'[r] = Result("network", ServerFetch(req[r].url, now))
               /\ putPc'[r] \in {"none", "open"}
               /\ storeVars' = storeVars]_vars
  /\ [](\A r \in Slots :
          putPc[r] # "none"
            => /\ pc[r] = "done"
               /\ result[r] = Result("network", putResp[r]))

C18_Witness ==
  \E r \in Slots :
    /\ pc[r] = "done" /\ result[r].kind = "network"
    /\ putPc[r] \in {"open", "put"}
    /\ CurrentEntry(cacheData, req[r].url) = NoEntry

\* C19: only the generation named CACHE_NAME is ever created or written.
\* A step that adds a generation adds CACHE_NAME; the contents of any other
\* generation change only by its deletion; while a lookup over the store
\* (caches.match) finds an entry whenever any existing generation has one.
GetRequests == { q \in Requests : q.method = "GET" }

C19_WritesOnlyCurrentGeneration ==
  /\ [][\A g \in GenNames \ {CACHE_NAME} :
          /\ HasName(cacheNames', g) => HasName(cacheNames, g)
          /\ cacheData'[g] # cacheData[g]
               => (~HasName(cacheNames', g) /\ cacheData'[g] = EmptyCache)]_vars
  /\ [](\A g \in GenNames \ {CACHE_NAME} :
          cacheData[g] \in {EmptyCache, OldSnapshot})
  /\ [](\A q \in GetRequests :
          StoreMatch(cacheNames, cacheData, q) # NoEntry
            <=> \E g \in NamesOf(cacheNames) : cacheData[g][q.url] # NoEntry)

C19_Witness ==
  \E g \in GenNames \ {CACHE_NAME} :
    /\ HasName(cacheNames, g) /\ cacheData[g] = OldSnapshot
    /\ precached /\ ShellStored(cacheData)
    /\ CurrentEntry(cacheData, ApiData) = NoEntry
    /\ StoreMatch(cacheNames, cacheData, Request("GET", "cors", ApiData))
         = OldSnapshot[ApiData]

\* C20: a cache-first request whose key is in the cache when it is looked up
\* leaves the cache store as it is and starts no write; a cache-first
\* request has a write only when its lookup missed and its one network
\* fetch succeeded.
C20_CacheFirstNeverRefreshes ==
  /\ [][\A r \in Slots :
          (pc[r] = "assetMatch" /\ pc'[r] # pc[r]
             /\ StoreMatch(cacheNames, cacheData, req[r]) # NoEntry)
            => /\ storeVars' = storeVars
               /\ lastPut' = lastPut
               /\ putPc'[r] = "none" /\ putResp'[r] = NoResponse]_vars
  /\ [][\A r \in Slots :
          (IsAsset(req'[r]) /\ putPc[r] = "none" /\ putPc'[r] # "none")
            => /\ pc[r] = "assetFetch" /\ online
               /\ netCalls[r] = 1
               /\ result'[r].kind = "network"]_vars
  /\ [](\A r \in Slots :
          (IsAsset(req[r]) /\ pc[r] = "assetFetch") => netCalls[r] = 1)

C20_Witness ==
  \E r, s \in Slots :
    /\ r # s
    /\ IsAsset(req[r]) /\ IsAsset(req[s]) /\ req[r].url = req[s].url
    /\ result[s].kind = "network" /\ putPc[s] = "stored"
    /\ result[r].kind = "cache" /\ putPc[r] = "none"
    /\ result[r].resp = CurrentEntry(cacheData, req[r].url).resp

====
